---- MODULE Spec2Model ----
(***************************************************************************)
(* Incident detection and trust scoring engine of ZKP-Vault.               *)
(*                                                                         *)
(* The model follows StudentExam.tsx (the React component that owns the    *)
(* tracker counters, the incident ledger, the trust score, the countdown   *)
(* and the finalizer handleEndExam), its two hosts (App.tsx and            *)
(* StudentDashboard.tsx) and the pure helpers of AIProctorService.         *)
(*                                                                         *)
(* React semantics used throughout: a handler sees the state variables of  *)
(* the render that created it.  Handlers bound in JSX are re-created on    *)
(* every render; the handler captured by the countdown effect (deps        *)
(* [isProctoring]) is created once, when proctoring starts.                *)
(*                                                                         *)
(* SHA-256 is modelled as an ideal (collision free) digest: a term that    *)
(* wraps the hashed text.  JSON.stringify is modelled as the ordered list  *)
(* of key/value pairs it serialises.                                       *)
(***************************************************************************)
EXTENDS Integers, Sequences, FiniteSets, TLC

\* ------------------------------------------------------------------ bounds
MaxSamples == 8            \* detection samples per run of SpecTracker
MaxLifeSamples == 2        \* detection samples per component in Spec
Epoch == 10000             \* Date.now() when the component is constructed
ExamSeconds == 2           \* countdown loaded from the exam (duration * 60)
MaxEnds == 2               \* handleEndExam invocations per component
MaxFrames == 4             \* frames analysed by the AIProctorService in SpecService
MaxStreakFrames == 33      \* frames analysed by the AIProctorService in SpecServiceStreak
MaxCycles == 2             \* interval callbacks per component in SpecCycles
MaxChecks == 2             \* checkIfTaken calls pending at a time
MaxTaken == 2              \* exams completed through one dashboard
MaxExams == 3              \* exams in the exam store
MaxAdminProofs == 1        \* proofs shown by an AdminDashboard
MaxPairSamples == 4        \* detection samples fed to a pair of sessions in SpecPair

\* ------------------------------------------------------- program constants
INCIDENT_COOLDOWN == 3000  \* ms, canLog
NO_FACE_LIMIT == 5         \* consecutiveNoFaceRef.current > 5
MULTI_FACE_LIMIT == 3      \* consecutiveMultiFaceRef.current > 3
INITIAL_TRUST == 100       \* useState(100)
RECENT_SHOWN == 5          \* incidents.slice(-5) in the incidents log
LOOKING_AWAY_THRESHOLD == 15  \* AIProctorService
NO_FACE_THRESHOLD == 10    \* AIProctorService
DETECTION_PERIOD == 500    \* ms, setInterval(..., 500) around runDetection

\* ------------------------------------------------------------ input domains
FaceCounts == 0..2                 \* faces.filter(...).length
SampleGaps == {500, 3001}          \* ms between two processed samples
LifeFaces == {1}                   \* face counts fed in Spec (one student in frame)
LifeGaps == {3001}                 \* sample gaps fed in Spec
ClockLags == {0, 1}                \* ms the clock advances across an await
PairFaces == {2}                   \* face counts fed to a pair of sessions (a second person in frame)
PairGaps == {3001}                 \* sample gaps fed to a pair of sessions
FrameGaps == {100, 3000}           \* ms between two frames given to the AIProctorService
Throws == {"none", "faces", "objects"}   \* the detector that throws in a frame
DashExamIds == {"examA", "examB"}  \* exam IDs typed into the dashboard
ExamIds == {"examA", "examB"}      \* exam IDs typed by the admin
Titles == {"T1", "T2"}             \* exam titles typed by the admin
TrustScores == 0..100              \* trust scores of the proofs an admin is shown
StreakGaps == {100}                \* the same in SpecServiceStreak (10 frames a second)
CycleFaceCounts == {0, 1}          \* face counts seen by the cycles of SpecCycles
Options == {"A"}                   \* radio options of the question

Max(a, b) == IF a >= b THEN a ELSE b
Min(a, b) == IF a <= b THEN a ELSE b

IsPrefix(s, t) == Len(s) <= Len(t) /\ SubSeq(t, 1, Len(s)) = s

CountType(ledger, type) == Cardinality({i \in 1..Len(ledger) : ledger[i].type = type})

\* ------------------------------------------------------------------- state
VARIABLES
  clock,                \* Date.now()
  mounted,              \* the StudentExam component is rendered by its host
  host,                 \* "App" (App.tsx) or "Dashboard" (StudentDashboard.tsx)
  initState,            \* "initializing" | "ready" | "error" (isInitializing / webcamError)
  examData,             \* <<exam>> once loaded from localStorage, <<>> if not found
  isProctoring,
  detectionInterval,    \* detectionIntervalRef holds a live interval
  incidents,            \* the incident ledger
  trustScore,
  consecutiveNoFace,    \* consecutiveNoFaceRef.current
  consecutiveMultiFace, \* consecutiveMultiFaceRef.current
  lastIncidentTime,     \* lastIncidentTimeRef.current: type -> ms, partial
  currentFaceCount,
  currentPhoneDetected,
  now,                  \* the value checkIncidents last read into `now`
  nSamples,             \* samples processed by this component
  timeRemaining,
  currentAnswers,       \* answer chosen for the exam's question
  timerClosure,         \* state captured by the handleEndExam the countdown calls
  pendingEnd,           \* handleEndExam invocations suspended at an await
  nEnds,                \* handleEndExam invocations of this component
  completions,          \* sessionData objects this component handed to onComplete
  proofs,               \* localStorage['zkp_vault_proofs']
  chainPending,         \* submissions awaited by App.handleExamComplete
  twin,                 \* a second StudentExam session fed the same samples (SpecPair)
  cycles,               \* runDetection calls of the interval: in flight, fired, delivered
  svc,                  \* an AIProctorService instance with its caller's incident list
  alerts,               \* the alert() messages App.handleExamComplete has shown
  rejected,             \* handleEndExam promises rejected by a failed digest
  recentView,           \* the incident list last rendered in the incidents log
  dash,                 \* a StudentDashboard: its state and its pending checkIfTaken calls
  examStore,            \* localStorage['zkp_vault_exams'] and the ExamBuilder working on it
  admin                 \* an AdminDashboard: proofs, stats, filterStatus

vars == <<clock, mounted, host, initState, examData, isProctoring,
          detectionInterval, incidents, trustScore, consecutiveNoFace,
          consecutiveMultiFace, lastIncidentTime, currentFaceCount,
          currentPhoneDetected, now, nSamples, timeRemaining, currentAnswers,
          timerClosure, pendingEnd, nEnds, completions, proofs, chainPending,
          twin, cycles, svc, alerts, rejected, recentView, dash, examStore, admin>>

trackerVars == <<incidents, trustScore, consecutiveNoFace, consecutiveMultiFace,
                 lastIncidentTime, currentFaceCount, currentPhoneDetected, now,
                 nSamples, recentView>>

\* ------------------------------------------------------- tracker (pure part)
CanLogNoCooldown(last, type, t) == TRUE

\* canLog inside checkIncidents: (now - (lastIncidentTimeRef.current[type] || 0)) > 3000
CanLog(last, type, t) ==
  t - (IF type \in DOMAIN last THEN last[type] ELSE 0) > INCIDENT_COOLDOWN

PenaltyMultiFace5(type) ==
  IF type = "no_face" THEN 5
  ELSE IF type = "multi_face" THEN 5
  ELSE IF type = "phone_detected" THEN 15
  ELSE 0

\* penalty chosen inside the setIncidents updater of addIncident
Penalty(type) ==
  IF type = "no_face" THEN 5
  ELSE IF type = "multi_face" THEN 10
  ELSE IF type = "phone_detected" THEN 15
  ELSE 0

ApplyPenaltyUnclamped(current, type) == current - Penalty(type)

\* setTrustScore(current => Math.max(0, current - penalty))
ApplyPenalty(current, type) == Max(0, current - Penalty(type))

PutAlone(obj, key, value) == [k \in {key} |-> value]

\* obj[key] = value on a plain JS object
Put(obj, key, value) ==
  [k \in DOMAIN obj \cup {key} |-> IF k = key THEN value ELSE obj[k]]

SetLastOnce(last, type, t) == IF type \in DOMAIN last THEN last ELSE Put(last, type, t)

\* lastIncidentTimeRef.current[type] = Date.now()
SetLast(last, type, t) == Put(last, type, t)

AddIncidentPrepend(s, type, details, t) ==
  [s EXCEPT !.incidents = <<[type |-> type, timestamp |-> t, details |-> details]>> \o @,
            !.trustScore = ApplyPenalty(@, type),
            !.last = SetLast(@, type, t)]

\* addIncident on the tracker record s; t is what Date.now() returns in it
AddIncident(s, type, details, t) ==
  [s EXCEPT !.incidents = Append(@, [type |-> type, timestamp |-> t, details |-> details]),
            !.trustScore = ApplyPenalty(@, type),
            !.last = SetLast(@, type, t)]

CheckNoFaceAtLimit(s, faceCount, t, tAdd) ==
  IF faceCount = 0
  THEN IF s.noFace + 1 >= NO_FACE_LIMIT /\ CanLog(s.last, "no_face", t)
       THEN [AddIncident(s, "no_face", "No face detected", tAdd) EXCEPT !.noFace = 0]
       ELSE [s EXCEPT !.noFace = @ + 1]
  ELSE [s EXCEPT !.noFace = 0]

\* the faceCount === 0 branch of checkIncidents
CheckNoFace(s, faceCount, t, tAdd) ==
  IF faceCount = 0
  THEN IF s.noFace + 1 > NO_FACE_LIMIT /\ CanLog(s.last, "no_face", t)
       THEN [AddIncident(s, "no_face", "No face detected", tAdd) EXCEPT !.noFace = 0]
       ELSE [s EXCEPT !.noFace = @ + 1]
  ELSE [s EXCEPT !.noFace = 0]

CheckMultiFaceDecay(s, faceCount, t, tAdd) ==
  IF faceCount > 1
  THEN IF s.multiFace + 1 > MULTI_FACE_LIMIT /\ CanLog(s.last, "multi_face", t)
       THEN [AddIncident(s, "multi_face", ToString(faceCount) \o " faces detected", tAdd)
               EXCEPT !.multiFace = 0]
       ELSE [s EXCEPT !.multiFace = @ + 1]
  ELSE [s EXCEPT !.multiFace = Max(0, @ - 1)]

\* the faceCount > 1 branch of checkIncidents
CheckMultiFace(s, faceCount, t, tAdd) ==
  IF faceCount > 1
  THEN IF s.multiFace + 1 > MULTI_FACE_LIMIT /\ CanLog(s.last, "multi_face", t)
       THEN [AddIncident(s, "multi_face", ToString(faceCount) \o " faces detected", tAdd)
               EXCEPT !.multiFace = 0]
       ELSE [s EXCEPT !.multiFace = @ + 1]
  ELSE [s EXCEPT !.multiFace = 0]

CheckPhoneNoCooldown(s, phoneDetected, t, tAdd) ==
  IF phoneDetected
  THEN AddIncident(s, "phone_detected", "Mobile phone detected", tAdd)
  ELSE s

\* the phoneDetected branch of checkIncidents
CheckPhone(s, phoneDetected, t, tAdd) ==
  IF phoneDetected /\ CanLog(s.last, "phone_detected", t)
  THEN AddIncident(s, "phone_detected", "Mobile phone detected", tAdd)
  ELSE s

CheckIncidentsElseIf(s, faceCount, phoneDetected, t, tAdd) ==
  CheckPhone(IF faceCount = 0
             THEN CheckNoFace(s, faceCount, t, tAdd)
             ELSE CheckMultiFace(CheckNoFace(s, faceCount, t, tAdd), faceCount, t, tAdd),
             phoneDetected, t, tAdd)

\* checkIncidents(faceCount, phoneDetected); t is `now`, tAdd the later clock reads
CheckIncidents(s, faceCount, phoneDetected, t, tAdd) ==
  CheckPhone(CheckMultiFace(CheckNoFace(s, faceCount, t, tAdd), faceCount, t, tAdd),
             phoneDetected, t, tAdd)

\* AIProctorService.calculateTrustScore(sessionData)
calculateTrustScore(ledger) ==
  LET score == INITIAL_TRUST
                 - CountType(ledger, "no_face") * 5
                 - CountType(ledger, "multi_face") * 10
                 - CountType(ledger, "looking_away") * 3
                 - CountType(ledger, "phone_detected") * 15
                 - CountType(ledger, "absence") * 8
  IN Max(0, Min(100, score))

\* Array.prototype.slice(start) with a negative start: a new array holding the
\* last -start elements (all of them when the array is shorter)
slice(arr, start) == SubSeq(arr, Max(Len(arr) + start, 0) + 1, Len(arr))

\* Array.prototype.reverse: the receiver with its elements in reverse order
reverse(arr) == [i \in 1..Len(arr) |-> arr[Len(arr) + 1 - i]]

RenderIncidentsInPlace(ledger) ==
  [ledger |-> reverse(ledger), view |-> SubSeq(reverse(ledger), 1, Min(RECENT_SHOWN, Len(ledger)))]

\* the incidents log of the render: incidents.slice(-5).reverse(); reverse
\* works in place, on the array slice returned, so the state array is as before
RenderIncidents(ledger) ==
  [ledger |-> ledger, view |-> reverse(slice(ledger, -RECENT_SHOWN))]

\* sum of a sequence of numbers (reduce((sum, p) => sum + p.trustScore, 0))
RECURSIVE SumSeq(_)
SumSeq(q) == IF q = <<>> THEN 0 ELSE q[1] + SumSeq(Tail(q))

\* AdminDashboard.calculateStats(proofList) on a list of trust scores; the
\* average, rounded to one decimal, is kept in tenths
calculateStats(proofList) ==
  LET totalSubmissions == Len(proofList)
  IN [totalSubmissions |-> totalSubmissions,
      averageTenths |-> IF totalSubmissions > 0
                        THEN (2 * 10 * SumSeq(proofList) + totalSubmissions)
                               \div (2 * totalSubmissions)
                        ELSE 0,
      highIntegrity |-> Len(SelectSeq(proofList, LAMBDA score : score > 90)),
      mediumIntegrity |-> Len(SelectSeq(proofList, LAMBDA score : score >= 70 /\ score <= 90)),
      lowIntegrity |-> Len(SelectSeq(proofList, LAMBDA score : score < 70))]

\* the refs and state the tracker works on, as one record
Tracker == [noFace |-> consecutiveNoFace, multiFace |-> consecutiveMultiFace,
            last |-> lastIncidentTime, incidents |-> incidents,
            trustScore |-> trustScore]

\* ------------------------------------------------------------ exam content
\* props of the component
examId == "examA"
studentId == "studentX"

EmptyObject == [k \in {} |-> 0]

TheExam == [examId |-> "examA", title |-> "Exam A",
            questions |-> <<[id |-> "q1", correctAnswer |-> "A"]>>]

\* computeAcademicScore(): Math.round((correct / questions.length) * 100)
computeAcademicScore(exam, answers) ==
  IF exam = <<>> THEN 0
  ELSE LET qs == exam[1].questions
           correct == Cardinality({i \in 1..Len(qs) :
                         qs[i].id \in DOMAIN answers /\ answers[qs[i].id] = qs[i].correctAnswer})
       IN IF Len(qs) > 0 THEN (200 * correct + Len(qs)) \div (2 * Len(qs)) ELSE 0

\* --------------------------------------------------------------- finalizer
Sha256HexSalted(text) == <<"0x", "sha256", text, clock>>

\* '0x' + hex(SHA-256(text)), as an ideal digest term
Sha256Hex(text) == <<"0x", "sha256", text>>

\* encoder.encode(`${studentId}_zkp-vault`) hashed
StudentHash(id) == Sha256Hex(<<id, "_zkp-vault">>)

\* JSON.stringify(proofData), key order as written in handleEndExam
ProofJSON(exam, studentHash, score, academicScore, nIncidents, timestamp, answers) ==
  << <<"examId", exam>>, <<"studentHash", studentHash>>, <<"trustScore", score>>,
     <<"academicScore", academicScore>>, <<"incidents", nIncidents>>,
     <<"timestamp", timestamp>>, <<"answers", answers>> >>

\* the state variables a handleEndExam closure reads, as of the render that made it
Closure == [trustScore |-> trustScore, incidents |-> incidents,
            currentAnswers |-> currentAnswers, examData |-> examData,
            timeRemaining |-> timeRemaining]

\* -------------------------------------------------------------------- Init
FreshClosure == [trustScore |-> INITIAL_TRUST, incidents |-> <<>>,
                 currentAnswers |-> EmptyObject, examData |-> <<>>,
                 timeRemaining |-> ExamSeconds]

\* a new AIProctorService and an empty incident list; awayRun and threw are
\* history fields: the length of the current run of frames not looking at the
\* screen (counted up to LOOKING_AWAY_THRESHOLD + 1) and which detector threw
\* in the last frame
FreshService ==
  [consecutiveLookingAway |-> 0, consecutiveNoFace |-> 0,
   lastIncidentTimes |-> EmptyObject, incidents |-> <<>>,
   detection |-> [faceCount |-> 1, isLookingAtScreen |-> TRUE,
                  phoneDetected |-> FALSE, timestamp |-> 0],
   frames |-> 0, awayRun |-> 0, threw |-> "none"]

\* a mounted StudentDashboard: empty exam ID, the first checkIfTaken has run
\* (it returns at once for an empty ID)
FreshDashboard ==
  [examId |-> "", startExam |-> FALSE, alreadyTaken |-> FALSE, checks |-> <<>>,
   taken |-> 0]

\* the second session of a pair, as constructed
FreshTwin ==
  [tracker |-> [noFace |-> 0, multiFace |-> 0, last |-> EmptyObject,
                incidents |-> <<>>, trustScore |-> INITIAL_TRUST],
   isProctoring |-> FALSE, timeRemaining |-> ExamSeconds,
   currentAnswers |-> EmptyObject, timerClosure |-> FreshClosure,
   pendingEnd |-> <<>>, completions |-> <<>>, sameReads |-> TRUE]

Init ==
  /\ clock = Epoch
  /\ mounted = TRUE
  /\ host \in {"App", "Dashboard"}
  /\ initState = "initializing"
  /\ examData \in {<<>>, <<TheExam>>}
  /\ isProctoring = FALSE
  /\ detectionInterval = FALSE
  /\ incidents = <<>>
  /\ trustScore = INITIAL_TRUST
  /\ consecutiveNoFace = 0
  /\ consecutiveMultiFace = 0
  /\ lastIncidentTime = EmptyObject
  /\ currentFaceCount = 0
  /\ currentPhoneDetected = FALSE
  /\ now = 0
  /\ nSamples = 0
  /\ timeRemaining = ExamSeconds
  /\ currentAnswers = EmptyObject
  /\ timerClosure = FreshClosure
  /\ pendingEnd = <<>>
  /\ nEnds = 0
  /\ completions = <<>>
  /\ proofs = <<>>
  /\ chainPending = 0
  /\ twin = FreshTwin
  /\ cycles = [inFlight |-> <<>>, fired |-> 0, delivered |-> 0]
  /\ svc = FreshService
  /\ alerts = <<>>
  /\ rejected = 0
  /\ recentView = <<>>
  /\ dash = FreshDashboard
  /\ examStore = [stored |-> <<>>, view |-> "app", exams |-> <<>>, editingExamId |-> ""]
  /\ admin = [proofs |-> <<>>, stats |-> calculateStats(<<>>), filterStatus |-> "all",
              loaded |-> FALSE]

\* ----------------------------------------------------------------- actions
\* the init() effect finishes: models loaded, or the catch branch
InitModels(ok) ==
  /\ mounted /\ initState = "initializing"
  /\ initState' = IF ok THEN "ready" ELSE "error"
  /\ UNCHANGED <<clock, mounted, host, examData, isProctoring,
                 detectionInterval, timeRemaining, currentAnswers, timerClosure,
                 pendingEnd, nEnds, completions, proofs, chainPending>>
  /\ UNCHANGED <<trackerVars, twin, cycles, svc, alerts, rejected, dash, examStore, admin>>

\* Start Exam button on this component's state; the countdown effect then
\* runs in the render that follows
StartProctoring ==
  /\ mounted /\ ~isProctoring /\ initState = "ready"
  /\ examData # <<>> /\ nEnds < MaxEnds
  /\ isProctoring' = TRUE
  /\ detectionInterval' = TRUE
  /\ timerClosure' = Closure
  /\ UNCHANGED <<clock, mounted, host, initState, examData, timeRemaining,
                 currentAnswers, pendingEnd, nEnds, completions, proofs, chainPending>>
  /\ UNCHANGED trackerVars

handleStartProctoring == StartProctoring /\ UNCHANGED <<twin, cycles, svc, alerts, rejected, dash, examStore, admin>>

\* the body of one interval callback on this component's state:
\* setCurrentFaceCount, setCurrentPhoneDetected, checkIncidents -> addIncident;
\* t is what checkIncidents reads into `now`, tAdd what addIncident reads later
ProcessSample(faceCount, phoneDetected, t, tAdd) ==
  LET r == CheckIncidents(Tracker, faceCount, phoneDetected, t, tAdd)
  IN /\ clock' = IF r.incidents = incidents THEN t ELSE tAdd
     /\ now' = t
     /\ currentFaceCount' = faceCount
     /\ currentPhoneDetected' = phoneDetected
     /\ consecutiveNoFace' = r.noFace
     /\ consecutiveMultiFace' = r.multiFace
     /\ lastIncidentTime' = r.last
     /\ incidents' = RenderIncidents(r.incidents).ledger
     /\ recentView' = RenderIncidents(r.incidents).view
     /\ trustScore' = r.trustScore
     /\ nSamples' = nSamples + 1
     /\ UNCHANGED <<mounted, host, initState, examData, isProctoring,
                    detectionInterval, timeRemaining, currentAnswers, timerClosure,
                    pendingEnd, nEnds, completions, proofs, chainPending>>

\* one interval callback: runDetection -> checkIncidents -> addIncident; the
\* Date.now() calls inside one callback return the same millisecond here
\* (PairSample lets them differ)
runDetection(limit, faces, phones, gaps) ==
  /\ detectionInterval /\ nSamples < limit
  /\ \E faceCount \in faces, phoneDetected \in phones, gap \in gaps :
       ProcessSample(faceCount, phoneDetected, clock + gap, clock + gap)
  /\ UNCHANGED <<twin, cycles, svc, alerts, rejected, dash, examStore, admin>>

\* a radio button of the question (enabled only while proctoring)
handleAnswerChange ==
  /\ mounted /\ isProctoring /\ examData # <<>>
  /\ \E q \in 1..Len(examData[1].questions), value \in Options :
       currentAnswers' = Put(currentAnswers, examData[1].questions[q].id, value)
  /\ UNCHANGED <<clock, mounted, host, initState, examData, isProctoring,
                 detectionInterval, timeRemaining, timerClosure,
                 pendingEnd, nEnds, completions, proofs, chainPending>>
  /\ UNCHANGED <<trackerVars, twin, cycles, svc, alerts, rejected, dash, examStore, admin>>

\* a handleEndExam invocation with closure c, suspended at its first await
PendingEntry(c) ==
  [closure |-> c, pc |-> "studentHash",
   studentHash |-> <<>>, academicScore |-> 0, proofJSON |-> <<>>]

\* handleEndExam up to its first await, run with the closure c
BeginEndExam(c) ==
  /\ nEnds < MaxEnds
  /\ isProctoring' = FALSE
  /\ detectionInterval' = FALSE
  /\ nEnds' = nEnds + 1
  /\ pendingEnd' = Append(pendingEnd, PendingEntry(c))

\* Submit Exam button: onClick={handleEndExam} of the current render
SubmitExam ==
  /\ mounted /\ isProctoring
  /\ BeginEndExam(Closure)
  /\ UNCHANGED <<clock, mounted, host, initState, examData, timeRemaining,
                 currentAnswers, timerClosure, completions, proofs, chainPending>>
  /\ UNCHANGED <<trackerVars, twin, cycles, svc, alerts, rejected, dash, examStore, admin>>

TimerTickNoEnd ==
  /\ mounted /\ isProctoring /\ timeRemaining >= 1
  /\ timeRemaining' = timeRemaining - 1
  /\ UNCHANGED <<isProctoring, detectionInterval, nEnds, pendingEnd>>
  /\ UNCHANGED <<clock, mounted, host, initState, examData,
                 currentAnswers, timerClosure, completions, proofs, chainPending>>
  /\ UNCHANGED <<trackerVars, twin, cycles, svc, alerts, rejected, dash, examStore, admin>>

\* one tick of the countdown interval
TimerTick ==
  /\ mounted /\ isProctoring
  /\ IF timeRemaining <= 1
     THEN /\ BeginEndExam(timerClosure)
          /\ timeRemaining' = 0
     ELSE /\ timeRemaining' = timeRemaining - 1
          /\ UNCHANGED <<isProctoring, detectionInterval, nEnds, pendingEnd>>
  /\ UNCHANGED <<clock, mounted, host, initState, examData,
                 currentAnswers, timerClosure, completions, proofs, chainPending>>
  /\ UNCHANGED <<trackerVars, twin, cycles, svc, alerts, rejected, dash, examStore, admin>>

\* sequence s without its i-th element
RemoveAt(s, i) == SubSeq(s, 1, i - 1) \o SubSeq(s, i + 1, Len(s))

\* the invocation e between its two awaits: studentHash, academicScore and
\* proofData with timestamp: Date.now() = t, serialised
HashedEntry(e, t) ==
  LET c == e.closure
      h == StudentHash(studentId)
      a == computeAcademicScore(c.examData, c.currentAnswers)
  IN [e EXCEPT !.pc = "proofHash", !.studentHash = h, !.academicScore = a,
               !.proofJSON = ProofJSON(examId, h, c.trustScore, a, Len(c.incidents),
                                       t, c.currentAnswers)]

\* handleEndExam between its two awaits: studentHash, academicScore, proofData
\* (the time both awaits take is accounted for in EndProofHash); when the
\* first crypto.subtle.digest fails, the promise of handleEndExam is rejected
EndStudentHash(oks) ==
  \E i \in 1..Len(pendingEnd), ok \in oks :
    LET e == pendingEnd[i]
    IN /\ e.pc = "studentHash"
       /\ IF ok
          THEN /\ pendingEnd' = [pendingEnd EXCEPT ![i] = HashedEntry(e, clock)]
               /\ UNCHANGED rejected
          ELSE /\ pendingEnd' = RemoveAt(pendingEnd, i)
               /\ rejected' = rejected + 1
       /\ UNCHANGED <<clock, mounted, host, initState, examData, isProctoring,
                      detectionInterval, timeRemaining, currentAnswers, timerClosure,
                      nEnds, completions, proofs, chainPending, alerts>>
       /\ UNCHANGED <<trackerVars, twin, cycles, svc, dash, examStore, admin>>

\* the sessionData object built by handleEndExam; t is Date.now()
SessionData(e, proofHash, t) ==
  [examId |-> examId, studentId |-> studentId, studentHash |-> e.studentHash,
   startTime |-> t - (ExamSeconds - e.closure.timeRemaining) * 1000,
   endTime |-> t, incidents |-> e.closure.incidents,
   trustScore |-> e.closure.trustScore, academicScore |-> e.academicScore,
   proofHash |-> proofHash, answers |-> e.closure.currentAnswers]

\* newProof pushed to localStorage by handleEndExam
NewProof(e, proofHash, t) ==
  [studentHash |-> e.studentHash, trustScore |-> e.closure.trustScore,
   academicScore |-> e.academicScore, proofHash |-> proofHash, timestamp |-> t,
   examId |-> examId, incidents |-> Len(e.closure.incidents)]

\* the record App.handleExamComplete pushes to localStorage
HostProof(sessionData) ==
  [examId |-> sessionData.examId, studentHash |-> sessionData.studentHash,
   trustScore |-> sessionData.trustScore, proofHash |-> sessionData.proofHash,
   timestamp |-> sessionData.endTime, incidents |-> Len(sessionData.incidents)]

\* the three alert() texts of App.handleExamComplete
ALERT_SUBMITTED == "Exam completed!"
ALERT_LOCAL == "Exam completed locally!"
ALERT_CHAIN_FAILED == "Exam completed and saved locally!"

\* handleEndExam after its second await: proofHash, sessionData, persist,
\* onComplete; with it the synchronous part of the host's callback (all of
\* App.handleExamComplete when no wallet is connected); when the second
\* crypto.subtle.digest fails, the promise of handleEndExam is rejected
EndProofHash(oks, wallets) ==
  \E i \in 1..Len(pendingEnd), lag \in ClockLags, ok \in oks, accountAddress \in wallets :
    LET e == pendingEnd[i]
        t == clock + lag
        proofHash == Sha256Hex(e.proofJSON)
        sessionData == SessionData(e, proofHash, t)
    IN /\ e.pc = "proofHash"
       /\ pendingEnd' = RemoveAt(pendingEnd, i)
       /\ IF ~ok
          THEN /\ rejected' = rejected + 1
               /\ UNCHANGED <<clock, completions, proofs, mounted, detectionInterval,
                              chainPending, alerts>>
          ELSE /\ clock' = t
               /\ completions' = Append(completions, sessionData)
               /\ UNCHANGED rejected
               /\ IF host = "Dashboard"
                  THEN \* onComplete={() => setStartExam(false)}: the component unmounts
                       /\ proofs' = Append(proofs, NewProof(e, proofHash, t))
                       /\ mounted' = FALSE
                       /\ detectionInterval' = FALSE
                       /\ UNCHANGED <<chainPending, alerts>>
                  ELSE /\ proofs' = Append(Append(proofs, NewProof(e, proofHash, t)),
                                           HostProof(sessionData))
                       /\ IF accountAddress
                          THEN \* up to await submitProofToBlockchain
                               /\ chainPending' = chainPending + 1
                               /\ UNCHANGED <<mounted, detectionInterval, alerts>>
                          ELSE \* alert, setCurrentView('home')
                               /\ alerts' = Append(alerts, ALERT_LOCAL)
                               /\ mounted' = FALSE
                               /\ detectionInterval' = FALSE
                               /\ UNCHANGED chainPending
       /\ UNCHANGED <<host, initState, examData, isProctoring,
                      timeRemaining, currentAnswers, timerClosure, nEnds>>
       /\ UNCHANGED <<trackerVars, twin, cycles, svc, dash, examStore, admin>>

ChainSettledToldSubmitted ==
  /\ chainPending > 0
  /\ chainPending' = chainPending - 1
  /\ alerts' = Append(alerts, ALERT_SUBMITTED)
  /\ mounted' = FALSE
  /\ detectionInterval' = FALSE
  /\ UNCHANGED <<clock, host, initState, examData, isProctoring,
                 timeRemaining, currentAnswers, timerClosure, pendingEnd, nEnds,
                 completions, proofs, rejected>>
  /\ UNCHANGED <<trackerVars, twin, cycles, svc, dash, examStore, admin>>

\* App.handleExamComplete after await submitProofToBlockchain: the function
\* refers to a transaction it never builds (`txn`), so the await always
\* rejects; the catch branch alerts, then setCurrentView('home')
ChainSettled ==
  /\ chainPending > 0
  /\ chainPending' = chainPending - 1
  /\ alerts' = Append(alerts, ALERT_CHAIN_FAILED)
  /\ mounted' = FALSE
  /\ detectionInterval' = FALSE
  /\ UNCHANGED <<clock, host, initState, examData, isProctoring,
                 timeRemaining, currentAnswers, timerClosure, pendingEnd, nEnds,
                 completions, proofs, rejected>>
  /\ UNCHANGED <<trackerVars, twin, cycles, svc, dash, examStore, admin>>

BackToHomeLeavingInterval ==
  /\ host = "App" /\ mounted
  /\ mounted' = FALSE
  /\ UNCHANGED <<clock, host, initState, examData, isProctoring, detectionInterval,
                 timeRemaining, currentAnswers, timerClosure, pendingEnd, nEnds,
                 completions, proofs, chainPending>>
  /\ UNCHANGED <<trackerVars, twin, cycles, svc, alerts, rejected, dash, examStore, admin>>

\* App: "Back to Home" while the exam view is shown; effect cleanups run
BackToHome ==
  /\ host = "App" /\ mounted
  /\ mounted' = FALSE
  /\ detectionInterval' = FALSE
  /\ UNCHANGED <<clock, host, initState, examData, isProctoring,
                 timeRemaining, currentAnswers, timerClosure, pendingEnd, nEnds,
                 completions, proofs, chainPending>>
  /\ UNCHANGED <<trackerVars, twin, cycles, svc, alerts, rejected, dash, examStore, admin>>

\* ------------------------------------------- a second session, same samples
\* every variable of the first session
sessionVars == <<clock, mounted, host, initState, examData, isProctoring,
                 detectionInterval, timeRemaining, currentAnswers, timerClosure,
                 pendingEnd, nEnds, completions, proofs, chainPending>>

\* what a handleEndExam of the second session's current render reads
TwinClosure == [trustScore |-> twin.tracker.trustScore,
                incidents |-> twin.tracker.incidents,
                currentAnswers |-> twin.currentAnswers, examData |-> examData,
                timeRemaining |-> twin.timeRemaining]

\* two fresh sessions are started together (handleStartProctoring of each)
PairStart ==
  /\ nEnds = 0 /\ ~twin.isProctoring /\ twin.completions = <<>> /\ twin.pendingEnd = <<>>
  /\ StartProctoring
  /\ twin' = [twin EXCEPT !.isProctoring = TRUE, !.timerClosure = TwinClosure]
  /\ UNCHANGED <<cycles, svc, alerts, rejected, dash, examStore, admin>>

\* one detection sample (faceCount, phoneDetected, now) processed by both
\* sessions; the clock reads inside addIncident are each session's own
PairSample ==
  /\ detectionInterval /\ twin.isProctoring /\ nSamples < MaxPairSamples
  /\ \E faceCount \in PairFaces, phoneDetected \in BOOLEAN, gap \in PairGaps,
        lagA \in ClockLags, lagB \in ClockLags :
       LET t == clock + gap
       IN /\ ProcessSample(faceCount, phoneDetected, t, t + lagA)
          /\ twin' = [twin EXCEPT
                !.tracker = CheckIncidents(@, faceCount, phoneDetected, t, t + lagB),
                !.sameReads = @ /\ lagA = lagB]
  /\ UNCHANGED <<cycles, svc, alerts, rejected, dash, examStore, admin>>

\* handleAnswerChange of the second session
TwinAnswer ==
  /\ twin.isProctoring /\ examData # <<>>
  /\ \E q \in 1..Len(examData[1].questions), value \in Options :
       twin' = [twin EXCEPT !.currentAnswers =
                  Put(@, examData[1].questions[q].id, value)]
  /\ UNCHANGED <<sessionVars, trackerVars, cycles, svc, alerts, rejected, dash, examStore, admin>>

\* the second session after handleEndExam ran to its first await with closure c
TwinBeginEnd(c) ==
  [twin EXCEPT !.isProctoring = FALSE,
               !.pendingEnd = Append(@, PendingEntry(c))]

\* Submit Exam button of the second session
TwinSubmit ==
  /\ twin.isProctoring
  /\ twin' = TwinBeginEnd(TwinClosure)
  /\ UNCHANGED <<sessionVars, trackerVars, cycles, svc, alerts, rejected, dash, examStore, admin>>

\* one tick of the second session's countdown
TwinTick ==
  /\ twin.isProctoring
  /\ IF twin.timeRemaining <= 1
     THEN twin' = [TwinBeginEnd(twin.timerClosure) EXCEPT !.timeRemaining = 0]
     ELSE twin' = [twin EXCEPT !.timeRemaining = @ - 1]
  /\ UNCHANGED <<sessionVars, trackerVars, cycles, svc, alerts, rejected, dash, examStore, admin>>

\* handleEndExam of the second session between its two awaits
TwinStudentHash ==
  /\ \E i \in 1..Len(twin.pendingEnd) :
       /\ twin.pendingEnd[i].pc = "studentHash"
       /\ twin' = [twin EXCEPT !.pendingEnd[i] = HashedEntry(@, clock)]
  /\ UNCHANGED <<sessionVars, trackerVars, cycles, svc, alerts, rejected, dash, examStore, admin>>

\* handleEndExam of the second session after its second await
TwinProofHash ==
  /\ \E i \in 1..Len(twin.pendingEnd) :
       LET e == twin.pendingEnd[i]
           proofHash == Sha256Hex(e.proofJSON)
       IN /\ e.pc = "proofHash"
          /\ twin' = [twin EXCEPT
                !.pendingEnd = RemoveAt(@, i),
                !.completions = Append(@, SessionData(e, proofHash, clock))]
  /\ UNCHANGED <<sessionVars, trackerVars, cycles, svc, alerts, rejected, dash, examStore, admin>>

\* ------------------------------------------ detection cycles, await by await
\* every variable the detection cycles leave alone
cycleFrame == <<mounted, host, initState, examData, isProctoring, detectionInterval,
                timeRemaining, currentAnswers, timerClosure, pendingEnd, nEnds,
                completions, proofs, chainPending, twin, svc, alerts, rejected, dash, examStore, admin>>

\* the interval set by handleStartProctoring fires: runDetection is called and,
\* past its guard on videoRef.current, starts estimateFaces on the current frame
IntervalFire ==
  /\ detectionInterval /\ cycles.fired < MaxCycles
  /\ clock' = clock + DETECTION_PERIOD
  /\ cycles' = [cycles EXCEPT
        !.fired = @ + 1,
        !.inFlight = IF mounted
                     THEN Append(@, [frame |-> cycles.fired + 1, pc |-> "faces",
                                     faceCount |-> 0])
                     ELSE @]
  /\ UNCHANGED cycleFrame
  /\ UNCHANGED trackerVars

\* a cycle's await of estimateFaces settles: rejected, or faceCount is set and
\* objectModel.detect(videoRef.current) is started (it throws on a null video)
EstimateFacesSettled ==
  /\ \E i \in 1..Len(cycles.inFlight), ok \in BOOLEAN, faceCount \in CycleFaceCounts :
       /\ cycles.inFlight[i].pc = "faces"
       /\ IF ok /\ mounted
          THEN /\ cycles' = [cycles EXCEPT !.inFlight[i].pc = "objects",
                                           !.inFlight[i].faceCount = faceCount]
               /\ currentFaceCount' = faceCount
          ELSE /\ cycles' = [cycles EXCEPT !.inFlight = RemoveAt(@, i)]
               /\ UNCHANGED currentFaceCount
  /\ UNCHANGED <<clock, incidents, trustScore, consecutiveNoFace, consecutiveMultiFace,
                 lastIncidentTime, currentPhoneDetected, now, nSamples, recentView>>
  /\ UNCHANGED cycleFrame

\* a cycle's await of objectModel.detect settles: rejected, or
\* setCurrentPhoneDetected and checkIncidents(faceCount, phoneDetected) run;
\* the refs are written in any case, the state setters only while mounted
DetectObjectsSettled ==
  /\ \E i \in 1..Len(cycles.inFlight), ok \in BOOLEAN, phoneDetected \in BOOLEAN :
       LET c == cycles.inFlight[i]
           r == CheckIncidents(Tracker, c.faceCount, phoneDetected, clock, clock)
       IN /\ c.pc = "objects"
          /\ IF ok
             THEN /\ cycles' = [cycles EXCEPT !.inFlight = RemoveAt(@, i),
                                              !.delivered = c.frame]
                  /\ now' = clock
                  /\ nSamples' = nSamples + 1
                  /\ consecutiveNoFace' = r.noFace
                  /\ consecutiveMultiFace' = r.multiFace
                  /\ lastIncidentTime' = r.last
                  /\ IF mounted
                     THEN /\ currentPhoneDetected' = phoneDetected
                          /\ incidents' = RenderIncidents(r.incidents).ledger
                          /\ recentView' = RenderIncidents(r.incidents).view
                          /\ trustScore' = r.trustScore
                     ELSE UNCHANGED <<currentPhoneDetected, incidents, trustScore,
                                     recentView>>
             ELSE /\ cycles' = [cycles EXCEPT !.inFlight = RemoveAt(@, i)]
                  /\ UNCHANGED <<now, nSamples, consecutiveNoFace, consecutiveMultiFace,
                                 lastIncidentTime, currentPhoneDetected, incidents,
                                 trustScore, recentView>>
  /\ UNCHANGED <<clock, currentFaceCount>>
  /\ UNCHANGED cycleFrame

\* --------------------------------------------------------- AIProctorService
\* estimateGaze(faceCount): the counters it writes and the value it returns
estimateGaze(s, faceCount) ==
  IF faceCount = 1
  THEN [s |-> [s EXCEPT !.consecutiveLookingAway = 0, !.consecutiveNoFace = 0],
        looking |-> TRUE]
  ELSE IF faceCount = 0
  THEN [s |-> [s EXCEPT !.consecutiveNoFace = @ + 1, !.consecutiveLookingAway = 0],
        looking |-> FALSE]
  ELSE [s |-> [s EXCEPT !.consecutiveLookingAway = @ + 1, !.consecutiveNoFace = 0],
        looking |-> FALSE]

\* detectFaces: the number of confident faces, 0 when estimateFaces throws
detectFaces(threw, faceCount) == IF threw = "faces" THEN 0 ELSE faceCount

\* detectPhone: whether a cell phone is in the frame, false when detect throws
detectPhone(threw, phoneDetected) == IF threw = "objects" THEN FALSE ELSE phoneDetected

\* analyzeFrame: detectFaces, detectPhone, estimateGaze; t is its Date.now()
analyzeFrame(s, faceCount, phoneDetected, t) ==
  LET g == estimateGaze(s, faceCount)
  IN [g.s EXCEPT !.detection = [faceCount |-> faceCount, isLookingAtScreen |-> g.looking,
                                phoneDetected |-> phoneDetected, timestamp |-> t]]

\* the test of canLogIncident(type); t is its Date.now()
canLogIncident(s, type, t) ==
  t - (IF type \in DOMAIN s.lastIncidentTimes THEN s.lastIncidentTimes[type] ELSE 0)
    > INCIDENT_COOLDOWN

\* canLogIncident returned true (lastIncidentTimes.set) and the incident is pushed
PushIncident(s, type, details, t) ==
  [s EXCEPT !.lastIncidentTimes = Put(@, type, t),
            !.incidents = Append(@, [type |-> type, timestamp |-> s.detection.timestamp,
                                     details |-> details])]

\* checkForIncidents: the no-face block
ServiceNoFace(s, t) ==
  IF /\ s.detection.faceCount = 0
     /\ s.consecutiveNoFace > NO_FACE_THRESHOLD
     /\ canLogIncident(s, "no_face", t)
  THEN [PushIncident(s, "no_face", "No face detected in frame", t)
          EXCEPT !.consecutiveNoFace = 0]
  ELSE s

\* checkForIncidents: the multiple-faces block
ServiceMultiFace(s, t) ==
  IF s.detection.faceCount > 1 /\ canLogIncident(s, "multi_face", t)
  THEN PushIncident(s, "multi_face",
                    ToString(s.detection.faceCount) \o " faces detected", t)
  ELSE s

\* checkForIncidents: the looking-away block
ServiceLookingAway(s, t) ==
  IF ~s.detection.isLookingAtScreen /\ s.consecutiveLookingAway > LOOKING_AWAY_THRESHOLD
  THEN [(IF canLogIncident(s, "looking_away", t)
         THEN PushIncident(s, "looking_away", "Excessive looking away detected", t)
         ELSE s)
          EXCEPT !.consecutiveLookingAway = 0]
  ELSE s

\* checkForIncidents: the phone block
ServicePhone(s, t) ==
  IF s.detection.phoneDetected /\ canLogIncident(s, "phone_detected", t)
  THEN PushIncident(s, "phone_detected", "Mobile device detected in frame", t)
  ELSE s

\* checkForIncidents(detection, incidents); t is what Date.now() returns in it
checkForIncidents(s, t) ==
  ServicePhone(ServiceLookingAway(ServiceMultiFace(ServiceNoFace(s, t), t), t), t)

\* one frame: the caller awaits analyzeFrame and passes its result, with the
\* incident list it keeps, to checkForIncidents
ServiceFrame(limit, phones, gaps, lags, throws) ==
  /\ svc.frames < limit
  /\ \E faceCount \in FaceCounts, phoneDetected \in phones, gap \in gaps,
        lag \in lags, threw \in throws :
       LET t == clock + gap
           r == analyzeFrame(svc, detectFaces(threw, faceCount),
                             detectPhone(threw, phoneDetected), t)
       IN /\ clock' = t
          /\ svc' = [checkForIncidents(r, t + lag)
                       EXCEPT !.frames = @ + 1,
                              !.threw = threw,
                              !.awayRun = IF r.detection.isLookingAtScreen THEN 0
                                          ELSE Min(@ + 1, LOOKING_AWAY_THRESHOLD + 1)]
  /\ UNCHANGED <<mounted, host, initState, examData, isProctoring, detectionInterval,
                 timeRemaining, currentAnswers, timerClosure, pendingEnd, nEnds,
                 completions, proofs, chainPending, twin, cycles, alerts,
                 rejected, dash, examStore, admin>>
  /\ UNCHANGED trackerVars

\* --------------------------------------------------------- StudentDashboard
\* every variable but the dashboard, the proof store and the clock
dashFrame == <<mounted, host, initState, examData, isProctoring, detectionInterval,
               timeRemaining, currentAnswers, timerClosure, pendingEnd, nEnds,
               completions, chainPending, twin, cycles, svc, alerts, rejected>>

\* allProofs.find(p => p.examId === examId && p.studentHash === studentHash)
Existing(store, exam, studentHash) ==
  \E i \in 1..Len(store) : store[i].examId = exam /\ store[i].studentHash = studentHash

\* the student types in the exam ID field; the effect of [examId, studentId]
\* calls checkIfTaken, which returns at once for an empty ID and otherwise
\* suspends at await hashStudentId
SetExamId ==
  /\ ~dash.startExam /\ Len(dash.checks) < MaxChecks
  /\ \E value \in DashExamIds \cup {""} :
       /\ value # dash.examId
       /\ dash' = IF value = ""
                  THEN [dash EXCEPT !.examId = value, !.alreadyTaken = FALSE]
                  ELSE [dash EXCEPT !.examId = value, !.checks = Append(@, value)]
  /\ UNCHANGED <<clock, proofs, examStore, admin>>
  /\ UNCHANGED dashFrame
  /\ UNCHANGED trackerVars

\* a pending checkIfTaken resumes: the digest failed (catch: nothing is set),
\* or the store is searched for the exam ID the call was started with
CheckIfTakenSettled ==
  /\ \E i \in 1..Len(dash.checks), ok \in BOOLEAN :
       dash' = [dash EXCEPT
                  !.checks = RemoveAt(@, i),
                  !.alreadyTaken =
                     IF ok THEN Existing(proofs, dash.checks[i], StudentHash(studentId))
                     ELSE @]
  /\ UNCHANGED <<clock, proofs, examStore, admin>>
  /\ UNCHANGED dashFrame
  /\ UNCHANGED trackerVars

\* Start Exam button (disabled={!examId || !accountAddress || alreadyTaken}),
\* with a wallet connected
StartExamClicked ==
  /\ ~dash.startExam /\ dash.examId # "" /\ ~dash.alreadyTaken
  /\ dash.taken < MaxTaken
  /\ dash' = [dash EXCEPT !.startExam = TRUE]
  /\ UNCHANGED <<clock, proofs, examStore, admin>>
  /\ UNCHANGED dashFrame
  /\ UNCHANGED trackerVars

\* the record handleEndExam stores for a session of exam `exam` without
\* incidents or answers, finished at t
DashboardProof(exam, t) ==
  [studentHash |-> StudentHash(studentId), trustScore |-> INITIAL_TRUST,
   academicScore |-> 0, proofHash |-> Sha256Hex(<<exam, t>>), timestamp |-> t,
   examId |-> exam, incidents |-> 0]

\* the StudentExam the dashboard rendered runs to the end of handleEndExam:
\* the proof is stored and onComplete={() => setStartExam(false)} runs
DashboardExamCompleted ==
  /\ dash.startExam
  /\ clock' = clock + 1
  /\ proofs' = Append(proofs, DashboardProof(dash.examId, clock + 1))
  /\ dash' = [dash EXCEPT !.startExam = FALSE, !.taken = @ + 1]
  /\ UNCHANGED <<examStore, admin>>
  /\ UNCHANGED dashFrame
  /\ UNCHANGED trackerVars

\* ----------------------------------------------------------- the exam store
\* every variable but the exam store
storeFrame == <<clock, proofs, dash, admin, dashFrame>>

\* exams.some(e => e.examId === id)
HasExam(exams, id) == \E i \in 1..Len(exams) : exams[i].examId = id

\* the admin opens the Exam Builder: the component mounts and its effect
\* loads the stored exams into its state
OpenBuilder ==
  /\ examStore.view = "app"
  /\ examStore' = [examStore EXCEPT !.view = "builder", !.exams = examStore.stored,
                                    !.editingExamId = ""]
  /\ UNCHANGED storeFrame
  /\ UNCHANGED trackerVars

\* the admin leaves the Exam Builder
CloseBuilder ==
  /\ examStore.view = "builder"
  /\ examStore' = [examStore EXCEPT !.view = "app"]
  /\ UNCHANGED storeFrame
  /\ UNCHANGED trackerVars

\* saveExams(updatedExams): localStorage.setItem and setExams
saveExams(st, updatedExams) == [st EXCEPT !.stored = updatedExams, !.exams = updatedExams]

\* ExamBuilder.saveExam with a complete form (exam ID id, title title):
\* update the exam being edited, or reject a duplicate ID, or append
BuilderSaveExam ==
  /\ examStore.view = "builder"
  /\ examStore.editingExamId # "" \/ Len(examStore.exams) < MaxExams
  /\ \E id \in ExamIds, title \in Titles :
       examStore' =
         IF examStore.editingExamId # ""
         THEN [saveExams(examStore,
                         [i \in 1..Len(examStore.exams) |->
                            IF examStore.exams[i].examId = examStore.editingExamId
                            THEN [examStore.exams[i] EXCEPT !.title = title]
                            ELSE examStore.exams[i]])
                 EXCEPT !.editingExamId = ""]
         ELSE IF HasExam(examStore.exams, id)
         THEN examStore
         ELSE saveExams(examStore,
                        Append(examStore.exams, [examId |-> id, title |-> title]))
  /\ UNCHANGED storeFrame
  /\ UNCHANGED trackerVars

\* ExamBuilder.deleteExam(examId), confirmed
BuilderDeleteExam ==
  /\ examStore.view = "builder"
  /\ \E i \in 1..Len(examStore.exams) :
       examStore' = saveExams(examStore,
                              SelectSeq(examStore.exams,
                                        LAMBDA e : e.examId # examStore.exams[i].examId))
  /\ UNCHANGED storeFrame
  /\ UNCHANGED trackerVars

\* ExamBuilder.editExam(exam) on a listed exam, or cancelEdit
BuilderEditExam ==
  /\ examStore.view = "builder"
  /\ \/ \E i \in 1..Len(examStore.exams) :
          examStore' = [examStore EXCEPT !.editingExamId = examStore.exams[i].examId]
     \/ examStore' = [examStore EXCEPT !.editingExamId = ""]
  /\ UNCHANGED storeFrame
  /\ UNCHANGED trackerVars

\* App.handleCreateExam with a non-empty newExamId: the exam (which has no
\* title) is pushed to the stored list
handleCreateExam ==
  /\ examStore.view = "app" /\ Len(examStore.stored) < MaxExams
  /\ \E newExamId \in ExamIds :
       examStore' = [examStore EXCEPT
                       !.stored = Append(@, [examId |-> newExamId, title |-> ""])]
  /\ UNCHANGED storeFrame
  /\ UNCHANGED trackerVars

\* exam-storage saveExam(exam): throws when the ID is stored, pushes otherwise
StorageSaveExam ==
  /\ examStore.view = "app" /\ Len(examStore.stored) < MaxExams
  /\ \E id \in ExamIds, title \in Titles :
       examStore' = IF HasExam(examStore.stored, id) THEN examStore
                    ELSE [examStore EXCEPT
                            !.stored = Append(@, [examId |-> id, title |-> title])]
  /\ UNCHANGED storeFrame
  /\ UNCHANGED trackerVars

\* ----------------------------------------------------------- AdminDashboard
\* every variable but the admin dashboard
adminFrame == <<clock, proofs, dash, examStore, dashFrame>>

\* getStatusBadge(score).label
getStatusBadge(score) ==
  IF score >= 90 THEN "High" ELSE IF score >= 70 THEN "Medium" ELSE "Review"

\* the second filter of filteredProofs (no search term)
filteredProofs(proofList, filterStatus) ==
  SelectSeq(proofList,
            LAMBDA score :
              IF filterStatus = "all" THEN TRUE
              ELSE IF filterStatus = "high" THEN score > 90
              ELSE IF filterStatus = "medium" THEN score >= 70 /\ score <= 90
              ELSE IF filterStatus = "low" THEN score < 70
              ELSE TRUE)

\* the admin loads the proofs of an exam (trust scores only): setProofs, calculateStats
AdminLoadProofs ==
  /\ ~admin.loaded
  /\ \E n \in 0..MaxAdminProofs :
       \E proofList \in [1..n -> TrustScores] :
         admin' = [admin EXCEPT !.proofs = proofList, !.stats = calculateStats(proofList),
                                !.loaded = TRUE]
  /\ UNCHANGED adminFrame
  /\ UNCHANGED trackerVars

\* a filter button: setFilterStatus
SetFilterStatus ==
  /\ \E filterStatus \in {"all", "high", "medium", "low"} :
       /\ filterStatus # admin.filterStatus
       /\ admin' = [admin EXCEPT !.filterStatus = filterStatus]
  /\ UNCHANGED adminFrame
  /\ UNCHANGED trackerVars

\* ----------------------------------------------------------- specifications
Next ==
  \/ \E ok \in BOOLEAN : InitModels(ok)
  \/ handleStartProctoring
  \/ runDetection(MaxLifeSamples, LifeFaces, BOOLEAN, LifeGaps)
  \/ handleAnswerChange
  \/ SubmitExam
  \/ TimerTick
  \/ EndStudentHash({TRUE})
  \/ EndProofHash({TRUE}, {TRUE})
  \/ ChainSettled
  \/ BackToHome

Spec == Init /\ [][Next]_vars

\* starting and finalizing alone (no samples, no answers): either digest may
\* fail, and a wallet may or may not be connected when a session completes
NextFinalize ==
  \/ \E ok \in BOOLEAN : InitModels(ok)
  \/ handleStartProctoring
  \/ SubmitExam
  \/ TimerTick
  \/ EndStudentHash(BOOLEAN)
  \/ EndProofHash(BOOLEAN, BOOLEAN)
  \/ ChainSettled
  \/ BackToHome

SpecFinalize == Init /\ [][NextFinalize]_vars

\* the same with the countdown interval firing as long as it is set
SpecCountdown == Init /\ [][NextFinalize]_vars /\ WF_vars(TimerTick)

\* the tracker alone: a started component fed samples, never ended
NextTracker ==
  \/ \E ok \in BOOLEAN : InitModels(ok)
  \/ handleStartProctoring
  \/ runDetection(MaxSamples, FaceCounts, BOOLEAN, SampleGaps)

SpecTracker == Init /\ [][NextTracker]_vars

\* the sample script of the end-to-end scenario: six faceCount = 0 samples,
\* then one sample with a phone (and the student's face) in frame
ScenarioFaces == IF nSamples <= NO_FACE_LIMIT THEN {0} ELSE {1}
ScenarioPhones == {nSamples > NO_FACE_LIMIT}

\* a component fed the scripted samples one detection period apart
NextScenario ==
  \/ \E ok \in BOOLEAN : InitModels(ok)
  \/ handleStartProctoring
  \/ runDetection(NO_FACE_LIMIT + 2, ScenarioFaces, ScenarioPhones, {DETECTION_PERIOD})
  \/ handleAnswerChange
  \/ SubmitExam
  \/ TimerTick
  \/ EndStudentHash({TRUE})
  \/ EndProofHash({TRUE}, {TRUE})
  \/ ChainSettled
  \/ BackToHome

SpecScenario == Init /\ [][NextScenario]_vars

\* two fresh sessions of the same configuration, started together and fed
\* the same samples, each answered and ended in its own time
NextPair ==
  \/ \E ok \in BOOLEAN : InitModels(ok)
  \/ PairStart
  \/ PairSample
  \/ handleAnswerChange
  \/ SubmitExam
  \/ TimerTick
  \/ EndStudentHash({TRUE})
  \/ EndProofHash({TRUE}, {TRUE})
  \/ TwinAnswer
  \/ TwinSubmit
  \/ TwinTick
  \/ TwinStudentHash
  \/ TwinProofHash

SpecPair == Init /\ [][NextPair]_vars

\* the component with its detection cycles taken await by await
NextCycles ==
  \/ \E ok \in BOOLEAN : InitModels(ok)
  \/ handleStartProctoring
  \/ IntervalFire
  \/ EstimateFacesSettled
  \/ DetectObjectsSettled
  \/ SubmitExam
  \/ TimerTick
  \/ EndStudentHash({TRUE})
  \/ EndProofHash({TRUE}, {TRUE})
  \/ ChainSettled
  \/ BackToHome

SpecCycles == Init /\ [][NextCycles]_vars

\* an AIProctorService fed a few frames of any content by its caller
NextService == ServiceFrame(MaxFrames, BOOLEAN, FrameGaps, ClockLags, Throws)

\* exams started through StudentDashboard only
NextDashboard ==
  \/ SetExamId
  \/ CheckIfTakenSettled
  \/ StartExamClicked
  \/ DashboardExamCompleted

SpecDashboard == Init /\ [][NextDashboard]_vars

\* the exam store under the Exam Builder, App's create form and exam-storage
NextExamStore ==
  \/ OpenBuilder
  \/ CloseBuilder
  \/ BuilderSaveExam
  \/ BuilderDeleteExam
  \/ BuilderEditExam
  \/ handleCreateExam
  \/ StorageSaveExam

SpecExamStore == Init /\ [][NextExamStore]_vars

\* an AdminDashboard shown a list of proofs
NextAdmin ==
  \/ AdminLoadProofs
  \/ SetFilterStatus

SpecAdmin == Init /\ [][NextAdmin]_vars

SpecService == Init /\ [][NextService]_vars

\* an AIProctorService fed a long run of frames at a steady rate, no phone
NextServiceStreak == ServiceFrame(MaxStreakFrames, {FALSE}, StreakGaps, {0}, {"none"})

SpecServiceStreak == Init /\ [][NextServiceStreak]_vars

\* ------------------------------------------------------------------ claims
\* a step that processed one detection sample
SampleStep == nSamples' = nSamples + 1

\* C1: after every processed sample the session trust score is an integer in
\* [0,100], and so is calculateTrustScore of the ledger
C1_ScoreInRange ==
  /\ trustScore \in 0..100
  /\ calculateTrustScore(incidents) \in 0..100

\* seven phone incidents: the penalties add up to 105 and the score is held at 0
C1_Witness ==
  /\ CountType(incidents, "phone_detected") = 7
  /\ trustScore = 0

\* C2: the ledger is append-only: every step leaves the previous ledger as a
\* prefix of the new one
C2_AppendOnly == [][IsPrefix(incidents, incidents')]_vars

\* the ledger grew twice and the session was ended and started again
C2_Witness == Len(incidents) = 2 /\ nEnds >= 1 /\ isProctoring

\* C6 as stated: with threshold 5 and no cooldown in effect, the 5th
\* consecutive faceCount = 0 sample logs the run's one no_face incident
C6_FifthSampleLogs ==
  [][(/\ SampleStep
      /\ currentFaceCount' = 0
      /\ consecutiveNoFace = NO_FACE_LIMIT - 1
      /\ CanLog(lastIncidentTime, "no_face", now'))
     => CountType(incidents', "no_face") = CountType(incidents, "no_face") + 1]_vars

\* C6 amended: with no cooldown in effect the 6th consecutive faceCount = 0
\* sample logs exactly one no_face incident and resets the count; the 1st to
\* 5th log none
C6_SixthSampleLogs ==
  [][(/\ SampleStep
      /\ currentFaceCount' = 0
      /\ CanLog(lastIncidentTime, "no_face", now'))
     => /\ consecutiveNoFace = NO_FACE_LIMIT
           => /\ CountType(incidents', "no_face") = CountType(incidents, "no_face") + 1
              /\ consecutiveNoFace' = 0
        /\ consecutiveNoFace < NO_FACE_LIMIT
           => /\ CountType(incidents', "no_face") = CountType(incidents, "no_face")
              /\ consecutiveNoFace' = consecutiveNoFace + 1]_vars

\* six faceCount = 0 samples from the start: the sixth logged the incident
C6_Witness ==
  /\ nSamples = 6
  /\ currentFaceCount = 0
  /\ consecutiveNoFace = 0
  /\ CountType(incidents, "no_face") = 1

\* the sample of this step makes the class's streak exceed its threshold
Qualifies(type) ==
  IF type = "no_face"
  THEN currentFaceCount' = 0 /\ consecutiveNoFace + 1 > NO_FACE_LIMIT
  ELSE currentFaceCount' > 1 /\ consecutiveMultiFace + 1 > MULTI_FACE_LIMIT

\* C7: a streak that qualifies less than 3000 ms after the class's previous
\* incident logs nothing (the two streaks leave one incident); one that
\* qualifies more than 3000 ms after it logs a second incident
C7_Cooldown ==
  [][SampleStep =>
       \A type \in {"no_face", "multi_face"} :
         (Qualifies(type) /\ type \in DOMAIN lastIncidentTime) =>
           /\ now' - lastIncidentTime[type] < INCIDENT_COOLDOWN
                => CountType(incidents', type) = CountType(incidents, type)
           /\ now' - lastIncidentTime[type] > INCIDENT_COOLDOWN
                => CountType(incidents', type) = CountType(incidents, type) + 1]_vars

\* a second multi_face streak has qualified inside the cooldown: still one incident
C7_Witness ==
  /\ CountType(incidents, "multi_face") = 1
  /\ consecutiveMultiFace > MULTI_FACE_LIMIT
  /\ now - lastIncidentTime["multi_face"] < INCIDENT_COOLDOWN

\* C9: at every point the incrementally maintained trust score equals the
\* recomputation from the whole ledger
C9_IncrementalEqualsRecomputed == trustScore = calculateTrustScore(incidents)

\* a ledger with two classes whose penalties exceed 100
C9_Witness ==
  /\ CountType(incidents, "multi_face") >= 1
  /\ CountType(incidents, "phone_detected") >= 6
  /\ calculateTrustScore(incidents) = 0

\* C3: finalization is single-shot: one component never hands a second
\* digest to onComplete
C3_SingleShot == Len(completions) <= 1

\* C4: the digest is made from the state at the moment the session ends: the
\* score and ledger a starting handleEndExam works on are the current ones
C4_DigestCarriesFinalState ==
  [][Len(pendingEnd') > Len(pendingEnd) =>
       LET c == pendingEnd'[Len(pendingEnd')].closure
       IN /\ c.trustScore = trustScore
          /\ Len(c.incidents) = Len(incidents)]_vars

\* the answer objects a student can have produced
AnswerObjects ==
  {EmptyObject} \cup {[k \in {TheExam.questions[1].id} |-> o] : o \in Options}

\* C10: every stored proof's proofHash is the hash of the fields stored with
\* it (examId, studentHash, trustScore, incident count, timestamp), for some
\* academic score and answers
C10_HashRecomputable ==
  \A i \in 1..Len(proofs) :
    \E answers \in AnswerObjects, academicScore \in {0, 100} :
      proofs[i].proofHash =
        Sha256Hex(ProofJSON(proofs[i].examId, proofs[i].studentHash, proofs[i].trustScore,
                            academicScore, proofs[i].incidents, proofs[i].timestamp, answers))

\* C5: on a fresh session six faceCount = 0 samples 500 ms apart leave one
\* no_face incident and score 95, the following phone sample leaves a second
\* incident (phone_detected) and score 80, and a finalization that starts
\* then works on score 80 and a ledger of 2 incidents, which SessionData and
\* ProofJSON copy into the digest
C5_EndToEnd ==
  /\ [](nSamples = NO_FACE_LIMIT + 1 =>
          /\ Len(incidents) = 1 /\ incidents[1].type = "no_face"
          /\ trustScore = 95)
  /\ [](nSamples = NO_FACE_LIMIT + 2 =>
          /\ Len(incidents) = 2 /\ incidents[2].type = "phone_detected"
          /\ trustScore = 80)
  /\ [][(nSamples = NO_FACE_LIMIT + 2 /\ Len(pendingEnd') > Len(pendingEnd)) =>
          LET c == pendingEnd'[Len(pendingEnd')].closure
          IN c.trustScore = 80 /\ Len(c.incidents) = 2]_vars

\* the timestamp inside the text a proofHash was computed from
HashedTimestamp(proofHash) == proofHash[3][6][2]

ChainArgs(sessionData) ==
  [method |-> "submit_proof", examId |-> sessionData.examId,
   studentHash |-> sessionData.studentHash, trustScore |-> sessionData.trustScore,
   proofHash |-> sessionData.proofHash]

\* the fields of the records above whose values are plain strings
StringFields == {"method", "examId", "studentId", "type", "details"}

\* the record rec carries the raw student identifier in one of its fields
HoldsRawId(rec) == \E f \in DOMAIN rec \cap StringFields : rec[f] = studentId

\* C11: the raw student identifier is in no ledger record, no persisted proof
\* record, no session data handed to onComplete and no chain argument list
C11_RawIdNeverLeaves ==
  /\ \A i \in 1..Len(incidents) : ~HoldsRawId(incidents[i])
  /\ \A i \in 1..Len(proofs) : ~HoldsRawId(proofs[i])
  /\ \A i \in 1..Len(completions) :
       /\ ~HoldsRawId(completions[i])
       /\ ~HoldsRawId(ChainArgs(completions[i]))

\* ------------------------------------------------------------- cancellation
\* a started session whose component was left before handleEndExam ever ran
Aborted == ~mounted /\ isProctoring /\ nEnds = 0

\* C12: an aborted session never gets a digest, a stored proof or a chain
\* submission, and from the abort on its detection loop and countdown are
\* stopped: the interval starts no cycle, the ledger and score stay as they
\* were and the countdown does not move
C12_AbortLeavesNothing ==
  /\ [](Aborted =>
          /\ pendingEnd = <<>> /\ completions = <<>>
          /\ proofs = <<>> /\ chainPending = 0
          /\ ~detectionInterval)
  /\ [][Aborted =>
          /\ Aborted'
          /\ cycles'.fired = cycles.fired
          /\ incidents' = incidents /\ trustScore' = trustScore
          /\ timeRemaining' = timeRemaining]_vars

\* the session was aborted after samples were processed and the countdown ran
C12_Witness == Aborted /\ nSamples >= 1 /\ timeRemaining < ExamSeconds

\* --------------------------------------------------------- detection cycles
\* C13: the cycles started by the interval never overlap (at most one is in
\* flight) and reach checkIncidents in the order their frames were captured
C13_CyclesSerial ==
  /\ [](Len(cycles.inFlight) <= 1)
  /\ [][cycles'.delivered # cycles.delivered =>
          cycles'.delivered > cycles.delivered]_vars

\* handleEndExam has begun and the exam was not started again
Ended == nEnds >= 1 /\ ~isProctoring

\* C14: once handleEndExam has begun, no step appends to the ledger or
\* changes the trust score or the consecutive counters
C14_FrozenAfterEnd ==
  [][Ended =>
       /\ incidents' = incidents
       /\ trustScore' = trustScore
       /\ consecutiveNoFace' = consecutiveNoFace
       /\ consecutiveMultiFace' = consecutiveMultiFace]_vars

\* ------------------------------------------------------------- trigger rule
\* the sample of this step satisfies the class's trigger predicate
Triggers(type) ==
  IF type = "no_face" THEN currentFaceCount' = 0
  ELSE IF type = "multi_face" THEN currentFaceCount' > 1
  ELSE currentPhoneDetected'

\* the class's consecutive count and threshold
Consecutive(type) == IF type = "no_face" THEN consecutiveNoFace ELSE consecutiveMultiFace
ConsecutiveNext(type) == IF type = "no_face" THEN consecutiveNoFace' ELSE consecutiveMultiFace'
Threshold(type) == IF type = "no_face" THEN NO_FACE_LIMIT ELSE MULTI_FACE_LIMIT

\* the class never logged, or its last log is more than the cooldown before
\* the `now` of this step's sample
Eligible(type) ==
  \/ type \notin DOMAIN lastIncidentTime
  \/ now' - lastIncidentTime[type] > INCIDENT_COOLDOWN

\* this step appended exactly one incident of the class / none
Emits(type) == CountType(incidents', type) = CountType(incidents, type) + 1
EmitsNone(type) == CountType(incidents', type) = CountType(incidents, type)

\* C15: a sample emits a no_face / multi_face incident exactly when the
\* class triggers, its count after incrementing exceeds the threshold and the
\* class is eligible; the emission sets lastIncidentTime to the current time
\* and the count to 0; otherwise nothing of the class is appended
C15_TriggerRule ==
  [][SampleStep =>
       \A type \in {"no_face", "multi_face"} :
         IF Triggers(type) /\ Consecutive(type) + 1 > Threshold(type) /\ Eligible(type)
         THEN /\ Emits(type)
              /\ lastIncidentTime'[type] = now'
              /\ ConsecutiveNext(type) = 0
         ELSE EmitsNone(type)]_vars

\* a multi_face incident was just emitted by a sample with two faces
C15_Witness ==
  /\ CountType(incidents, "multi_face") >= 1
  /\ currentFaceCount = 2
  /\ consecutiveMultiFace = 0
  /\ lastIncidentTime["multi_face"] = now

\* C16: a sample that does not trigger a class sets the class's consecutive
\* count to 0 whatever it was and logs nothing of the class; a triggering
\* sample that logs nothing adds exactly one to the count, so only the
\* triggers since the last break count toward the threshold
C16_FullReset ==
  [][SampleStep =>
       \A type \in {"no_face", "multi_face"} :
         /\ ~Triggers(type) => ConsecutiveNext(type) = 0 /\ EmitsNone(type)
         /\ (Triggers(type) /\ EmitsNone(type)) =>
              ConsecutiveNext(type) = Consecutive(type) + 1]_vars

\* eight samples; the only multi_face incident came with the eighth, so the
\* multi-face samples before the break did not count toward its streak
C16_Witness ==
  /\ nSamples = 8
  /\ CountType(incidents, "multi_face") = 1
  /\ lastIncidentTime["multi_face"] = now
  /\ consecutiveMultiFace = 0
  /\ currentFaceCount = 2

\* ------------------------------------------------------------------ cooldown
\* any two incidents of one class in the ledger are more than the cooldown apart
Spaced(ledger) ==
  \A i \in 1..Len(ledger), j \in 1..Len(ledger) :
    (i < j /\ ledger[i].type = ledger[j].type) =>
      ledger[j].timestamp - ledger[i].timestamp > INCIDENT_COOLDOWN

\* C17: in every reachable ledger, of the StudentExam component and of an
\* AIProctorService caller alike, two incidents of the same class have
\* timestamps more than 3000 ms apart
C17_CooldownInvariant == Spaced(incidents) /\ Spaced(svc.incidents)

\* ------------------------------------------------------- AIProctorService steps
\* a step in which the AIProctorService processed one frame
FrameStep == svc'.frames = svc.frames + 1

\* this step pushed exactly one incident of the class to the service's list
ServiceEmits(type) ==
  CountType(svc'.incidents, type) = CountType(svc.incidents, type) + 1

\* C18: a consecutive count is 0 after a sample only if the sample logged an
\* incident of the class or did not trigger the class (faceCount = 0 for
\* no_face, faceCount > 1 for multi_face and for the service's looking_away
\* count); a streak over the threshold that the cooldown blocks keeps its count
C18_CountKept ==
  /\ [][SampleStep =>
          \A type \in {"no_face", "multi_face"} :
            ConsecutiveNext(type) = 0 => (Emits(type) \/ ~Triggers(type))]_vars
  /\ [][FrameStep =>
          /\ svc'.consecutiveNoFace = 0 =>
               (ServiceEmits("no_face") \/ svc'.detection.faceCount # 0)
          /\ svc'.consecutiveLookingAway = 0 =>
               (ServiceEmits("looking_away") \/ svc'.detection.faceCount <= 1)]_vars

\* ------------------------------------------------------ class independence
\* the incident classes of checkIncidents
Classes == {"no_face", "multi_face", "phone_detected"}

\* the class's entry of lastIncidentTimeRef is what it was before the step
LastKept(type) ==
  /\ (type \in DOMAIN lastIncidentTime') = (type \in DOMAIN lastIncidentTime)
  /\ type \in DOMAIN lastIncidentTime => lastIncidentTime'[type] = lastIncidentTime[type]

\* C19: a sample changes a class's count and cooldown clock only by that class's
\* own trigger and own logging: a class logs at most once and only when its own
\* predicate holds, its cooldown clock moves exactly when it logs itself, its
\* count is 0 or one more according to its own trigger and logging, whatever
\* the other classes do in the same sample
C19_Independent ==
  [][SampleStep =>
       \A type \in Classes :
         /\ Emits(type) \/ EmitsNone(type)
         /\ Emits(type) => Triggers(type)
         /\ EmitsNone(type) => LastKept(type)
         /\ Emits(type) =>
              type \in DOMAIN lastIncidentTime' /\ lastIncidentTime'[type] = now'
         /\ type # "phone_detected" =>
              ConsecutiveNext(type) =
                IF Triggers(type) /\ EmitsNone(type) THEN Consecutive(type) + 1 ELSE 0]_vars

\* two classes logged from the same sample while a third class's count is
\* untouched, and the phone class had logged before
C19_Witness ==
  /\ "multi_face" \in DOMAIN lastIncidentTime /\ lastIncidentTime["multi_face"] = now
  /\ "phone_detected" \in DOMAIN lastIncidentTime /\ lastIncidentTime["phone_detected"] = now
  /\ CountType(incidents, "phone_detected") = 2
  /\ CountType(incidents, "multi_face") = 1
  /\ "no_face" \notin DOMAIN lastIncidentTime

\* the same independence in AIProctorService: a class's lastIncidentTimes entry
\* moves only when that class pushes an incident, and the two counts follow
\* faceCount and the class's own threshold test alone
C19_ServiceIndependent ==
  [][FrameStep =>
       /\ \A type \in {"no_face", "multi_face", "looking_away", "phone_detected"} :
            \/ ServiceEmits(type) /\ svc'.lastIncidentTimes[type] >= svc'.detection.timestamp
            \/ /\ CountType(svc'.incidents, type) = CountType(svc.incidents, type)
               /\ (type \in DOMAIN svc'.lastIncidentTimes) = (type \in DOMAIN svc.lastIncidentTimes)
               /\ type \in DOMAIN svc.lastIncidentTimes =>
                    svc'.lastIncidentTimes[type] = svc.lastIncidentTimes[type]
       /\ svc'.consecutiveNoFace =
            IF svc'.detection.faceCount = 0 /\ ~ServiceEmits("no_face")
            THEN svc.consecutiveNoFace + 1 ELSE 0
       /\ svc'.consecutiveLookingAway =
            IF svc'.detection.faceCount > 1 /\ svc.consecutiveLookingAway + 1 <= LOOKING_AWAY_THRESHOLD
            THEN svc.consecutiveLookingAway + 1 ELSE 0]_vars

\* ------------------------------------------------------------ phone class
\* C20: a sample with phoneDetected = true logs exactly one phone_detected
\* incident when the class never logged or its last incident is more than
\* the cooldown before the sample, whatever the samples before it were, and
\* logs none inside the cooldown; a sample without a phone logs none
C20_PhoneNotDebounced ==
  [][SampleStep =>
       IF currentPhoneDetected'
       THEN IF \/ CountType(incidents, "phone_detected") = 0
               \/ now' - lastIncidentTime["phone_detected"] > INCIDENT_COOLDOWN
            THEN /\ Emits("phone_detected")
                 /\ incidents'[Len(incidents')].type = "phone_detected"
                 /\ incidents'[Len(incidents')].timestamp = now'
            ELSE EmitsNone("phone_detected")
       ELSE EmitsNone("phone_detected")]_vars

\* the first phone sample logged at once, the first phone sample after the
\* cooldown logged again, and the phone sample that followed inside the
\* cooldown logged nothing
C20_Witness ==
  /\ nSamples = 3
  /\ currentPhoneDetected
  /\ Len(incidents) = 2
  /\ incidents[1].type = "phone_detected" /\ incidents[2].type = "phone_detected"
  /\ incidents[1].timestamp = Epoch + DETECTION_PERIOD
  /\ incidents[2].timestamp = incidents[1].timestamp + INCIDENT_COOLDOWN + 1
  /\ lastIncidentTime["phone_detected"] = incidents[2].timestamp
  /\ now = incidents[2].timestamp + DETECTION_PERIOD

\* ------------------------------------------------------- exclusive triggers
\* C21: no sample logs both a no_face and a multi_face incident, no sample
\* increments both consecutive counters, and after every sample at least one
\* of the two counters is 0
C21_ExclusiveFaceClasses ==
  /\ [](consecutiveNoFace = 0 \/ consecutiveMultiFace = 0)
  /\ [][SampleStep =>
          /\ ~(Emits("no_face") /\ Emits("multi_face"))
          /\ ~(consecutiveNoFace' > consecutiveNoFace
               /\ consecutiveMultiFace' > consecutiveMultiFace)]_vars

\* a no-face streak is running after a multi-face streak had run to an incident
C21_Witness ==
  /\ consecutiveNoFace >= 2
  /\ CountType(incidents, "multi_face") = 1
  /\ currentFaceCount = 0

\* the same exclusion in AIProctorService: a frame pushes at most one of
\* no_face / multi_face
C21_ServiceExclusive ==
  [][FrameStep => ~(ServiceEmits("no_face") /\ ServiceEmits("multi_face"))]_vars

\* ------------------------------------------------------------ looking away
\* C22: in AIProctorService isLookingAtScreen holds exactly when faceCount = 1,
\* and a frame that ends a run of more than LOOKING_AWAY_THRESHOLD frames with
\* faceCount # 1, when looking_away never logged or logged more than the
\* cooldown before the frame, logs a looking_away incident
C22_LookingAwaySustained ==
  /\ [](svc.detection.isLookingAtScreen = (svc.detection.faceCount = 1))
  /\ [][(/\ FrameStep
         /\ svc'.awayRun > LOOKING_AWAY_THRESHOLD
         /\ \/ "looking_away" \notin DOMAIN svc.lastIncidentTimes
            \/ svc'.detection.timestamp - svc.lastIncidentTimes["looking_away"]
                 > INCIDENT_COOLDOWN)
        => ServiceEmits("looking_away")]_vars

\* ---------------------------------------------------------- failed cycles
\* a detection cycle of StudentExam ended without delivering a sample
CycleDropped ==
  /\ Len(cycles'.inFlight) < Len(cycles.inFlight)
  /\ cycles'.delivered = cycles.delivered

\* a dropped cycle of StudentExam.runDetection leaves counters, cooldown clocks,
\* ledger and score unchanged
DroppedCycleKeepsTracker ==
  [][CycleDropped =>
       /\ consecutiveNoFace' = consecutiveNoFace
       /\ consecutiveMultiFace' = consecutiveMultiFace
       /\ lastIncidentTime' = lastIncidentTime
       /\ incidents' = incidents
       /\ trustScore' = trustScore]_vars

\* C23: a detection cycle in which the face or the object detector throws
\* leaves every consecutive counter, every cooldown clock, the ledger and the
\* score unchanged, in StudentExam.runDetection and in AIProctorService
C23_FailedCycleDropped ==
  /\ DroppedCycleKeepsTracker
  /\ [][(FrameStep /\ svc'.threw # "none") =>
          /\ svc'.consecutiveNoFace = svc.consecutiveNoFace
          /\ svc'.consecutiveLookingAway = svc.consecutiveLookingAway
          /\ svc'.lastIncidentTimes = svc.lastIncidentTimes
          /\ svc'.incidents = svc.incidents]_vars

\* ------------------------------------------------------ failed finalization
\* the digest of sessionData sd is in the proof store
DigestStored(sd) == \E i \in 1..Len(proofs) : proofs[i].proofHash = sd.proofHash

C25_RecentIsPureView ==
  /\ [](/\ Len(recentView) = Min(RECENT_SHOWN, Len(incidents))
        /\ \A k \in 1..Len(recentView) :
             recentView[k] = incidents[Len(incidents) + 1 - k])
  /\ [][IsPrefix(incidents, incidents')]_vars

\* a ledger longer than the view, the view showing its newest record first
C25_Witness ==
  /\ Len(incidents) > RECENT_SHOWN
  /\ Len(recentView) = RECENT_SHOWN
  /\ recentView[1] = incidents[Len(incidents)]
  /\ recentView[1].timestamp > recentView[RECENT_SHOWN].timestamp

\* ------------------------------------------------------------- proof store
\* C26: every completed session (handleEndExam ran to onComplete) adds exactly
\* one record to localStorage['zkp_vault_proofs'], with or without a wallet
\* and whatever the chain submission does
C26_OneProofPerSession ==
  /\ [](Len(proofs) = Len(completions))
  /\ [][Len(completions') = Len(completions) + 1 => Len(proofs') = Len(proofs) + 1]_vars

C28_OneProofPerExam ==
  /\ \A i, j \in 1..Len(proofs) :
       (proofs[i].examId = proofs[j].examId
        /\ proofs[i].studentHash = proofs[j].studentHash) => i = j
  /\ (dash.examId # "" /\ Existing(proofs, dash.examId, StudentHash(studentId))
      /\ ~dash.startExam)
       => dash.alreadyTaken

\* ----------------------------------------------------------- unique exam IDs
\* the exam IDs of a list, in order
IdsOf(exams) == [i \in 1..Len(exams) |-> exams[i].examId]

\* C29: the exam IDs in localStorage['zkp_vault_exams'] are pairwise different
\* after any sequence of create, edit and delete operations; no operation adds
\* an exam whose ID is already stored, and an edit changes no other exam
C29_ExamIdsUnique ==
  /\ [](\A i, j \in 1..Len(examStore.stored) :
          examStore.stored[i].examId = examStore.stored[j].examId => i = j)
  /\ [][/\ Len(examStore'.stored) > Len(examStore.stored) =>
             ~HasExam(examStore.stored, examStore'.stored[Len(examStore'.stored)].examId)
        /\ (examStore.editingExamId # "" /\ examStore'.editingExamId = ""
            /\ examStore'.view = "builder") =>
             /\ IdsOf(examStore'.stored) = IdsOf(examStore.stored)
             /\ \A i \in 1..Len(examStore.stored) :
                  examStore.stored[i].examId # examStore.editingExamId =>
                    examStore'.stored[i] = examStore.stored[i]]_vars

\* ------------------------------------------------------- integrity buckets
\* the filter under which a proof with this badge label is expected
BadgeBucket(label) ==
  IF label = "High" THEN "high" ELSE IF label = "Medium" THEN "medium" ELSE "low"

\* C30: the three statistics add up to the number of proofs, and every proof
\* is listed under the filter (and so counted in the statistic) that its
\* status badge names, and under no other
C30_BucketsMatchBadges ==
  /\ admin.stats.highIntegrity + admin.stats.mediumIntegrity + admin.stats.lowIntegrity
       = admin.stats.totalSubmissions
  /\ admin.stats.totalSubmissions = Len(admin.proofs)
  /\ \A i \in 1..Len(admin.proofs) :
       \A filterStatus \in {"high", "medium", "low"} :
         (Len(filteredProofs(<<admin.proofs[i]>>, filterStatus)) = 1)
           = (filterStatus = BadgeBucket(getStatusBadge(admin.proofs[i])))

====
